---- MODULE Spec2Model ----
(***************************************************************************)
(* Model of mmdeploy's backend abstraction layer                           *)
(*   mmdeploy/codebase/base/backend_model.py  (BaseBackendModel)           *)
(* and of the host provisioning routine                                    *)
(*   tools/scripts/ubuntu_utils.py            (ensure_base_env).           *)
(***************************************************************************)
EXTENDS Integers, Sequences, FiniteSets, TLC

\* ------------------------------------------------------------------------
\* Bounds of the model
\* ------------------------------------------------------------------------
MaxFiles == 2
MaxDestroyCalls == 2

\* ------------------------------------------------------------------------
\* Values
\* ------------------------------------------------------------------------

\* An Optional[Sequence[str]]: None, or a (possibly empty) list of names.
NoneNames == [some |-> FALSE, val |-> <<>>]
Some(s) == [some |-> TRUE, val |-> s]

\* Python truthiness of an Optional[Sequence]: None and [] are both falsy.
Truthy(n) == n.some /\ Len(n.val) > 0

Names == {"x", "y"}

RECURSIVE SeqsUpTo(_, _)
SeqsUpTo(S, n) ==
  IF n = 0 THEN {<<>>}
  ELSE LET shorter == SeqsUpTo(S, n - 1)
       IN  shorter \cup {Append(s, e) : s \in shorter, e \in S}

NoDup(s) == \A i, j \in 1..Len(s) : i # j => s[i] # s[j]

\* The name lists a deploy config can declare (ir_config input_names /
\* output_names): absent, empty, or any list of distinct names.
NameOpts ==
  {NoneNames} \cup
  {Some(s) : s \in {t \in SeqsUpTo(Names, Cardinality(Names)) : NoDup(t)}}

\* The name hints a caller passes to _build_wrapper directly.
ArgNameOpts == {NoneNames, Some(<<"x">>)}

\* The members of the Backend enumeration that _build_wrapper dispatches on.
TableBackends ==
  {"ONNXRUNTIME", "TENSORRT", "PPLNN", "NCNN", "OPENVINO", "SDK",
   "TORCHSCRIPT", "ASCEND", "SNPE"}

\* Members of the Backend enumeration that no branch of _build_wrapper names.
OtherBackends == {"PYTORCH", "DEFAULT"}

Backends == TableBackends \cup OtherBackends

Devices == {"cpu", "cuda:0"}

\* Artifact paths are opaque: path i is the i-th file handed in.
FileLists == {[i \in 1..n |-> i] : n \in 0..MaxFiles}
NoFile == 0

\* kwargs: either no 'uri' key, or a uri.
NoUri == "-"
UriOpts == {NoUri, "tcp://host"}

\* deploy_cfg: None, or a config with
\*   ir_config.input_names / output_names  (possibly absent),
\*   backend_config.use_vulkan             ("absent", "true", "false"),
\*   codebase_config.task                  (in SDK_TASK_MAP or not).
NoneCfg ==
  [present |-> FALSE, input_names |-> NoneNames, output_names |-> NoneNames,
   use_vulkan |-> "absent", task |-> "unmapped"]

Configs ==
  [present : {TRUE}, input_names : NameOpts, output_names : NameOpts,
   use_vulkan : {"absent", "true", "false"}, task : {"mapped", "unmapped"}]

CfgOpts == {NoneCfg} \cup Configs

\* ------------------------------------------------------------------------
\* Results of a call
\* ------------------------------------------------------------------------
NoAdapter ==
  [cls |-> "-", model |-> NoFile, aux |-> NoFile, device |-> "-",
   input_names |-> NoneNames, output_names |-> NoneNames,
   use_vulkan |-> FALSE, task_name |-> "-", uri |-> NoUri]

\* A call that raised: exc is the Python exception class; ctor tells whether
\* a wrapper constructor had been entered when it was raised.
Raise(exc, ctor) ==
  [status |-> "raise", exc |-> exc, adapter |-> NoAdapter, ctor_called |-> ctor]

\* A wrapper constructor called with the given arguments; ok says whether the
\* engine behind it loads the model (the constructor's own failure propagates).
Construct(adapter, ok) ==
  IF ok THEN [status |-> "return", exc |-> "-", adapter |-> adapter,
              ctor_called |-> TRUE]
  ELSE Raise("WrapperError", TRUE)

\* backend_files[i] with Python's 0-based index i: IndexError when too short.
HasIndex(backend_files, i) == Len(backend_files) > i
Item(backend_files, i) == backend_files[i + 1]

\* ------------------------------------------------------------------------
\* BaseBackendModel._build_wrapper, one operator per branch
\* ------------------------------------------------------------------------

\* Mutant of BuildORT: the model file is read from index 1 instead of 0.
BuildORT_OffByOne(backend_files, device, output_names, loads) ==
  IF ~HasIndex(backend_files, 1) THEN Raise("IndexError", FALSE)
  ELSE Construct([NoAdapter EXCEPT !.cls = "ORTWrapper",
                                   !.model = Item(backend_files, 1),
                                   !.device = device,
                                   !.output_names = output_names], loads)

\* Backend.ONNXRUNTIME
BuildORT(backend_files, device, output_names, loads) ==
  IF ~HasIndex(backend_files, 0) THEN Raise("IndexError", FALSE)
  ELSE Construct([NoAdapter EXCEPT !.cls = "ORTWrapper",
                                   !.model = Item(backend_files, 0),
                                   !.device = device,
                                   !.output_names = output_names], loads)

\* Backend.TENSORRT (device is not forwarded)
BuildTRT(backend_files, output_names, loads) ==
  IF ~HasIndex(backend_files, 0) THEN Raise("IndexError", FALSE)
  ELSE Construct([NoAdapter EXCEPT !.cls = "TRTWrapper",
                                   !.model = Item(backend_files, 0),
                                   !.output_names = output_names], loads)

\* Backend.PPLNN (the second file is an optional companion)
BuildPPLNN(backend_files, device, output_names, loads) ==
  IF ~HasIndex(backend_files, 0) THEN Raise("IndexError", FALSE)
  ELSE Construct([NoAdapter EXCEPT !.cls = "PPLNNWrapper",
                                   !.model = Item(backend_files, 0),
                                   !.aux = IF Len(backend_files) > 1
                                           THEN Item(backend_files, 1)
                                           ELSE NoFile,
                                   !.device = device,
                                   !.output_names = output_names], loads)

\* Mutant of UseVulkan: the flag defaults to on when the config lacks it.
UseVulkan_DefaultOn(deploy_cfg) ==
  IF deploy_cfg.present
  THEN (IF deploy_cfg.use_vulkan = "absent" THEN TRUE
        ELSE deploy_cfg.use_vulkan = "true")
  ELSE FALSE

\* use_vulkan as the NCNN branch computes it
UseVulkan(deploy_cfg) ==
  IF deploy_cfg.present
  THEN (IF deploy_cfg.use_vulkan = "absent" THEN FALSE
        ELSE deploy_cfg.use_vulkan = "true")
  ELSE FALSE

\* Mutant of BuildNCNN: the bin file is treated as optional, as PPLNN's
\* companion file is.
BuildNCNN_OptionalBin(backend_files, output_names, deploy_cfg, loads) ==
  IF ~HasIndex(backend_files, 0) THEN Raise("IndexError", FALSE)
  ELSE Construct([NoAdapter EXCEPT !.cls = "NCNNWrapper",
                                   !.model = Item(backend_files, 0),
                                   !.aux = IF Len(backend_files) > 1
                                           THEN Item(backend_files, 1)
                                           ELSE NoFile,
                                   !.output_names = output_names,
                                   !.use_vulkan = UseVulkan(deploy_cfg)], loads)

\* Backend.NCNN (param file and bin file)
BuildNCNN(backend_files, output_names, deploy_cfg, loads) ==
  LET use_vulkan == UseVulkan(deploy_cfg) IN
  IF ~HasIndex(backend_files, 0) THEN Raise("IndexError", FALSE)
  ELSE IF ~HasIndex(backend_files, 1) THEN Raise("IndexError", FALSE)
  ELSE Construct([NoAdapter EXCEPT !.cls = "NCNNWrapper",
                                   !.model = Item(backend_files, 0),
                                   !.aux = Item(backend_files, 1),
                                   !.output_names = output_names,
                                   !.use_vulkan = use_vulkan], loads)

\* Backend.OPENVINO
BuildOpenVINO(backend_files, output_names, loads) ==
  IF ~HasIndex(backend_files, 0) THEN Raise("IndexError", FALSE)
  ELSE Construct([NoAdapter EXCEPT !.cls = "OpenVINOWrapper",
                                   !.model = Item(backend_files, 0),
                                   !.output_names = output_names], loads)

\* Mutant of BuildSDK: the assert on deploy_cfg is missing and the task name
\* falls back to a default.
BuildSDK_NoAssert(backend_files, device, deploy_cfg, loads) ==
  IF deploy_cfg.present /\ deploy_cfg.task # "mapped" THEN Raise("KeyError", FALSE)
  ELSE IF ~HasIndex(backend_files, 0) THEN Raise("IndexError", FALSE)
  ELSE Construct([NoAdapter EXCEPT !.cls = "SDKWrapper",
                                   !.model = Item(backend_files, 0),
                                   !.task_name = "cls_name",
                                   !.device = device], loads)

\* Backend.SDK: the assert on deploy_cfg comes first, then the task lookup
\* SDK_TASK_MAP[get_task_type(deploy_cfg)], then backend_files[0].
BuildSDK(backend_files, device, deploy_cfg, loads) ==
  IF ~deploy_cfg.present THEN Raise("AssertionError", FALSE)
  ELSE IF deploy_cfg.task # "mapped" THEN Raise("KeyError", FALSE)
  ELSE IF ~HasIndex(backend_files, 0) THEN Raise("IndexError", FALSE)
  ELSE Construct([NoAdapter EXCEPT !.cls = "SDKWrapper",
                                   !.model = Item(backend_files, 0),
                                   !.task_name = "cls_name",
                                   !.device = device], loads)

\* Backend.TORCHSCRIPT (the only branch that forwards input_names)
BuildTorchscript(backend_files, input_names, output_names, loads) ==
  IF ~HasIndex(backend_files, 0) THEN Raise("IndexError", FALSE)
  ELSE Construct([NoAdapter EXCEPT !.cls = "TorchscriptWrapper",
                                   !.model = Item(backend_files, 0),
                                   !.input_names = input_names,
                                   !.output_names = output_names], loads)

\* Backend.ASCEND
BuildAscend(backend_files, device, loads) ==
  IF ~HasIndex(backend_files, 0) THEN Raise("IndexError", FALSE)
  ELSE Construct([NoAdapter EXCEPT !.cls = "AscendWrapper",
                                   !.model = Item(backend_files, 0),
                                   !.device = device], loads)

\* Backend.SNPE (uri taken from kwargs when present)
BuildSNPE(backend_files, output_names, uri, loads) ==
  IF ~HasIndex(backend_files, 0) THEN Raise("IndexError", FALSE)
  ELSE Construct([NoAdapter EXCEPT !.cls = "SNPEWrapper",
                                   !.model = Item(backend_files, 0),
                                   !.uri = uri,
                                   !.output_names = output_names], loads)

\* Mutant of UnknownBackend: a silent default instead of the raise.
UnknownBackend_SilentDefault(backend) ==
  Construct([NoAdapter EXCEPT !.cls = "ORTWrapper"], TRUE)

\* The final else: no branch names the backend.
UnknownBackend(backend) == Raise("NotImplementedError", FALSE)

_build_wrapper(backend, backend_files, device, input_names, output_names, deploy_cfg, uri, loads) ==
  IF backend = "ONNXRUNTIME" THEN BuildORT(backend_files, device, output_names, loads)
  ELSE IF backend = "TENSORRT" THEN BuildTRT(backend_files, output_names, loads)
  ELSE IF backend = "PPLNN" THEN BuildPPLNN(backend_files, device, output_names, loads)
  ELSE IF backend = "NCNN" THEN BuildNCNN(backend_files, output_names, deploy_cfg, loads)
  ELSE IF backend = "OPENVINO" THEN BuildOpenVINO(backend_files, output_names, loads)
  ELSE IF backend = "SDK" THEN BuildSDK(backend_files, device, deploy_cfg, loads)
  ELSE IF backend = "TORCHSCRIPT"
       THEN BuildTorchscript(backend_files, input_names, output_names, loads)
  ELSE IF backend = "ASCEND" THEN BuildAscend(backend_files, device, loads)
  ELSE IF backend = "SNPE" THEN BuildSNPE(backend_files, output_names, uri, loads)
  ELSE UnknownBackend(backend)

\* ------------------------------------------------------------------------
\* BaseBackendModel.__init__ and BaseBackendModel.destroy
\* ------------------------------------------------------------------------

\* Mutant of ResolveInputName: the last name is taken instead of the first.
ResolveInputName_Last(input_names) ==
  IF Truthy(input_names) THEN input_names.val[Len(input_names.val)] ELSE "input"

\* input_names[0] if input_names else 'input'
ResolveInputName(input_names) ==
  IF Truthy(input_names) THEN input_names.val[1] ELSE "input"

\* output_names if output_names else ['output']
ResolveOutputNames(output_names) ==
  IF Truthy(output_names) THEN output_names.val ELSE <<"output">>

\* The facade before its constructor has run.
NoFacade ==
  [input_name |-> "-", output_names |-> <<>>, has_wrapper |-> FALSE,
   wrapper |-> NoAdapter]

\* __init__: both lists start as None and are read from the ir config only
\* when a deploy config is given; no attribute `wrapper` is set here.
__init__(deploy_cfg) ==
  LET output_names == IF deploy_cfg.present THEN deploy_cfg.output_names
                      ELSE NoneNames
      input_names == IF deploy_cfg.present THEN deploy_cfg.input_names
                     ELSE NoneNames
  IN  [NoFacade EXCEPT !.input_name = ResolveInputName(input_names),
                       !.output_names = ResolveOutputNames(output_names)]

\* The Python value None returned by a call.
ReturnNone ==
  [status |-> "return", exc |-> "-", adapter |-> NoAdapter, ctor_called |-> FALSE]

\* Mutant of destroy: no hasattr checks before self.wrapper.destroy().
destroy_Unchecked(self, eng) ==
  IF self.has_wrapper /\ eng.has_destroy
  THEN [self |-> self,
        eng |-> [eng EXCEPT !.destroy_calls = @ + 1],
        ret |-> ReturnNone]
  ELSE [self |-> self, eng |-> eng, ret |-> Raise("AttributeError", FALSE)]

\* destroy(): forwards to the wrapper when the facade has an attribute
\* `wrapper` and that wrapper has an attribute `destroy`; nothing else.
\* eng is the held engine object: whether it exposes destroy, and how often
\* its destroy routine has run.
destroy(self, eng) ==
  IF self.has_wrapper /\ eng.has_destroy
  THEN [self |-> self,
        eng |-> [eng EXCEPT !.destroy_calls = @ + 1],
        ret |-> ReturnNone]
  ELSE [self |-> self, eng |-> eng, ret |-> ReturnNone]

\* ------------------------------------------------------------------------
\* tools/scripts/ubuntu_utils.py: texts and pure helpers
\* ------------------------------------------------------------------------

\* Command output is text; a text is a sequence of characters.
Digits == <<"0", "1", "2", "3", "4", "5", "6", "7", "8", "9">>
IsDigit(c) == \E i \in 1..Len(Digits) : Digits[i] = c
DigitOf(c) == (CHOOSE i \in 1..Len(Digits) : Digits[i] = c) - 1

\* `sub in txt` on Python strings
Contains(sub, txt) ==
  \E i \in 0..(Len(txt) - Len(sub)) : SubSeq(txt, i + 1, i + Len(sub)) = sub

\* txt.split('.')[0]: the text before the first dot (all of it when none).
FirstField(txt) ==
  LET dots == {i \in 1..Len(txt) : txt[i] = "."}
  IN  IF dots = {} THEN txt
      ELSE SubSeq(txt, 1, (CHOOSE i \in dots : \A j \in dots : i <= j) - 1)

RECURSIVE IntOf(_)
IntOf(cs) ==
  IF cs = <<>> THEN 0
  ELSE 10 * IntOf(SubSeq(cs, 1, Len(cs) - 1)) + DigitOf(cs[Len(cs)])

\* version_major(txt) = int(txt.split('.')[0]); int() raises ValueError on a
\* text that is not a number.
version_major(txt) ==
  LET f == FirstField(txt)
  IN  IF f # <<>> /\ \A i \in 1..Len(f) : IsDigit(f[i])
      THEN [ok |-> TRUE, val |-> IntOf(f)]
      ELSE [ok |-> FALSE, val |-> 0]

\* The binaries ensure_base_env looks up with `which`.
Tools == {"cmake", "make", "g++-7", "wget", "git", "unzip", "opencv_version"}

\* What `whoami` and the lsb_release pipeline can print on a host.
WhoamiTexts == {<<"r", "o", "o", "t">>, <<"d", "e", "v">>, <<"g", "r", "o", "o", "t">>}
ReleaseTexts ==
  {<<>>, <<"1", "8", ".", "0", "4">>, <<"2", "0", ".", "0", "4">>,
   <<"n", "/", "a">>}

\* Entries of the run's trace: a `which` lookup of a binary with what it
\* found, or a command handed to os.system.  tool names the binary whose
\* install block issued the command ("-" outside the seven blocks).
Which(bin, found) ==
  [op |-> "which", tool |-> bin, sudo |-> "-", cmd |-> "which", found |-> found]
System(tool, sudo, cmd) ==
  [op |-> "system", tool |-> tool, sudo |-> sudo, cmd |-> cmd, found |-> FALSE]

\* cmd_result('which <bin>') on a host: non-empty exactly when bin is on it.
WhichFinds(host, bin) == bin \in host

\* What an install attempt leaves on the host: the binary when it worked.
AfterInstall(host, bin, works) == IF works THEN host \cup {bin} ELSE host

\* Mutant of simple_check_install: apt install runs whatever the first
\* lookup found.
simple_check_install_Always(bin, sudo, host, works) ==
  LET host1 == AfterInstall(host, bin, works)
  IN  [trace |-> <<Which(bin, WhichFinds(host, bin)),
                   System(bin, sudo, "apt install <bin> -y"),
                   Which(bin, WhichFinds(host1, bin))>>,
       host |-> host1,
       found |-> WhichFinds(host1, bin)]

\* simple_check_install(bin, sudo): look the binary up, install it with apt
\* only when the lookup printed nothing, look it up again.  found = FALSE is
\* the returned None.
simple_check_install(bin, sudo, host, works) ==
  IF WhichFinds(host, bin)
  THEN [trace |-> <<Which(bin, TRUE)>>, host |-> host, found |-> TRUE]
  ELSE LET host1 == AfterInstall(host, bin, works)
       IN  [trace |-> <<Which(bin, FALSE),
                        System(bin, sudo, "apt install <bin> -y"),
                        Which(bin, WhichFinds(host1, bin))>>,
            host |-> host1,
            found |-> WhichFinds(host1, bin)]

\* ------------------------------------------------------------------------
\* State
\* ------------------------------------------------------------------------
VARIABLES
  pc,        \* where the caller is: "start", "returned", "live", "failed"
  call,      \* the arguments drawn for the call or the construction
  ret,       \* what the last call returned or raised
  last,      \* the last method called on the facade
  self,      \* the facade's attributes
  engine,    \* the engine object behind the held wrapper
  n_destroy, \* how many times destroy() has been called on the facade
  epc,       \* ensure_base_env: the block about to run
  facts,     \* the host as the run finds it: whoami, release, python modules
  host,      \* the binaries `which` finds on the host now
  locals,    \* ensure_base_env's local variables
  trace,     \* the lookups made and the commands issued, in order
  result     \* what ensure_base_env returned or raised

fvars == <<last, self, engine, n_destroy>>
evars == <<epc, facts, host, locals, trace, result>>
vars == <<pc, call, ret, fvars, evars>>

NoRet == [status |-> "none", exc |-> "-", adapter |-> NoAdapter, ctor_called |-> FALSE]
NoEngine == [has_destroy |-> FALSE, destroy_calls |-> 0]

InitFacadeIdle ==
  /\ last = "-"
  /\ self = NoFacade
  /\ engine = NoEngine
  /\ n_destroy = 0

NoFacts == [whoami |-> <<>>, release |-> <<>>, torch |-> FALSE, mmcv |-> FALSE,
            host0 |-> {}]
NoLocals == [sudo |-> "sudo", ubuntu |-> <<>>, envs |-> <<>>, found |-> {}]
NoResult == [kind |-> "none", status |-> 0, envs |-> <<>>]

InitEnvIdle ==
  /\ epc = "-"
  /\ facts = NoFacts
  /\ host = {}
  /\ locals = NoLocals
  /\ trace = <<>>
  /\ result = NoResult

\* ---- direct calls of the static factory ----
Calls ==
  [backend : Backends, backend_files : FileLists, device : Devices,
   input_names : ArgNameOpts, output_names : ArgNameOpts,
   deploy_cfg : CfgOpts, uri : UriOpts, loads : BOOLEAN,
   binds : {FALSE}, has_destroy : {FALSE}]

InitBuild ==
  /\ pc = "start"
  /\ call \in Calls
  /\ ret = NoRet
  /\ InitFacadeIdle
  /\ InitEnvIdle

\* A direct call of the static method with the drawn arguments.
Build ==
  /\ pc = "start"
  /\ ret' = _build_wrapper(call.backend, call.backend_files, call.device,
                           call.input_names, call.output_names,
                           call.deploy_cfg, call.uri, call.loads)
  /\ pc' = "returned"
  /\ UNCHANGED <<call, fvars, evars>>

NextBuild == Build

SpecBuild == InitBuild /\ [][NextBuild]_vars

\* ---- the facade's life ----
\* binds: whether the concrete model class asks the factory for a wrapper
\* and stores it (a class that does not leaves the facade without the
\* attribute).  has_destroy: whether the wrapper class has a destroy method.
Constructions ==
  [backend : Backends, backend_files : FileLists, device : Devices,
   input_names : {NoneNames}, output_names : {NoneNames},
   deploy_cfg : CfgOpts, uri : {NoUri}, loads : BOOLEAN,
   binds : BOOLEAN, has_destroy : BOOLEAN]

InitFacade ==
  /\ pc = "start"
  /\ call \in Constructions
  /\ ret = NoRet
  /\ InitFacadeIdle
  /\ InitEnvIdle

\* Construction of a concrete model: BaseBackendModel.__init__ resolves the
\* names, then the factory is asked for the wrapper, which is stored.  When
\* the factory raises, the exception leaves the constructor and the caller
\* gets no facade.
NewFacade ==
  /\ pc = "start"
  /\ LET base == __init__(call.deploy_cfg)
         built == _build_wrapper(call.backend, call.backend_files, call.device,
                                 Some(<<base.input_name>>),
                                 Some(base.output_names),
                                 call.deploy_cfg, call.uri, call.loads)
     IN  IF ~call.binds
         THEN /\ self' = base
              /\ ret' = ReturnNone
              /\ engine' = NoEngine
              /\ pc' = "live"
         ELSE IF built.status = "return"
         THEN /\ self' = [base EXCEPT !.has_wrapper = TRUE,
                                      !.wrapper = built.adapter]
              /\ ret' = built
              /\ engine' = [has_destroy |-> call.has_destroy, destroy_calls |-> 0]
              /\ pc' = "live"
         ELSE /\ self' = base
              /\ ret' = built
              /\ engine' = NoEngine
              /\ pc' = "failed"
  /\ last' = "__init__"
  /\ UNCHANGED <<call, n_destroy, evars>>

\* forward(): abstract in the base class (its body is `pass`); nothing in
\* the base class stops a call after destroy().
Forward ==
  /\ pc = "live"
  /\ last' = "forward"
  /\ ret' = ReturnNone
  /\ UNCHANGED <<pc, call, self, engine, n_destroy, evars>>

\* show_result(): abstract in the base class (its body is `pass`).
ShowResult ==
  /\ pc = "live"
  /\ last' = "show_result"
  /\ ret' = ReturnNone
  /\ UNCHANGED <<pc, call, self, engine, n_destroy, evars>>

Destroy ==
  /\ pc = "live"
  /\ n_destroy < MaxDestroyCalls
  /\ LET r == destroy(self, engine)
     IN  /\ self' = r.self
         /\ engine' = r.eng
         /\ ret' = r.ret
  /\ last' = "destroy"
  /\ n_destroy' = n_destroy + 1
  /\ UNCHANGED <<pc, call, evars>>

NextFacade == NewFacade \/ Forward \/ ShowResult \/ Destroy

SpecFacade == InitFacade /\ [][NextFacade]_vars

\* ---- ensure_base_env ----
NoCall ==
  [backend |-> "DEFAULT", backend_files |-> <<>>, device |-> "cpu",
   input_names |-> NoneNames, output_names |-> NoneNames,
   deploy_cfg |-> NoneCfg, uri |-> NoUri, loads |-> FALSE,
   binds |-> FALSE, has_destroy |-> FALSE]

HostFacts ==
  [whoami : WhoamiTexts, release : ReleaseTexts, torch : BOOLEAN,
   mmcv : BOOLEAN, host0 : SUBSET Tools]

InitEnv ==
  /\ pc = "-"
  /\ call = NoCall
  /\ ret = NoRet
  /\ InitFacadeIdle
  /\ epc = "begin"
  /\ facts \in HostFacts
  /\ host = facts.host0
  /\ locals = NoLocals
  /\ trace = <<>>
  /\ result = NoResult

Frame == UNCHANGED <<pc, call, ret, fvars, facts>>

ReturnStatus(status, envs) ==
  /\ result' = [kind |-> "return", status |-> status, envs |-> envs]
  /\ epc' = "done"

Found(bin) == [locals EXCEPT !.found = @ \cup {bin}]

\* ensurepip and wheel, sudo from whoami, the release from lsb_release.
Prologue ==
  /\ epc = "begin"
  /\ trace' = trace \o <<System("-", "", "python3 -m ensurepip"),
                         System("-", "", "python3 -m pip install wheel")>>
  /\ locals' = [locals EXCEPT
                  !.sudo = IF Contains(<<"r", "o", "o", "t">>, facts.whoami)
                           THEN "" ELSE "sudo",
                  !.ubuntu = facts.release]
  /\ epc' = "cmake"
  /\ UNCHANGED <<host, result>>
  /\ Frame

\* cmake: pip install when missing; when still missing, the PATH export
\* (run in a child shell, so it changes nothing `which` sees) is appended to
\* envs and a third lookup decides.
CheckCmake ==
  /\ epc = "cmake"
  /\ IF WhichFinds(host, "cmake")
     THEN /\ trace' = Append(trace, Which("cmake", TRUE))
          /\ locals' = Found("cmake")
          /\ epc' = "make"
          /\ UNCHANGED <<host, result>>
     ELSE \E works \in BOOLEAN :
          LET host1 == AfterInstall(host, "cmake", works)
              export == "export PATH=${PATH}:~/.local/bin"
              tried == trace \o <<Which("cmake", FALSE),
                                  System("cmake", "", "python3 -m pip install cmake>=3.14.0"),
                                  Which("cmake", WhichFinds(host1, "cmake"))>>
          IN  /\ host' = host1
              /\ IF WhichFinds(host1, "cmake")
                 THEN /\ trace' = tried
                      /\ locals' = Found("cmake")
                      /\ epc' = "make"
                      /\ UNCHANGED result
                 ELSE /\ trace' = tried \o <<System("-", "", export),
                                             Which("cmake", WhichFinds(host1, "cmake"))>>
                      /\ IF WhichFinds(host1, "cmake")
                         THEN /\ locals' = [Found("cmake") EXCEPT
                                              !.envs = Append(@, export)]
                              /\ epc' = "make"
                              /\ UNCHANGED result
                         ELSE /\ locals' = [locals EXCEPT !.envs = Append(@, export)]
                              /\ ReturnStatus(-1, Append(locals.envs, export))
  /\ Frame

\* make: apt update and apt install when missing.
CheckMake ==
  /\ epc = "make"
  /\ IF WhichFinds(host, "make")
     THEN /\ trace' = Append(trace, Which("make", TRUE))
          /\ locals' = Found("make")
          /\ epc' = "g++"
          /\ UNCHANGED <<host, result>>
     ELSE \E works \in BOOLEAN :
          LET host1 == AfterInstall(host, "make", works)
          IN  /\ host' = host1
              /\ trace' = trace \o
                   <<Which("make", FALSE),
                     System("make", locals.sudo, "apt update --fix-missing"),
                     System("make", locals.sudo,
                            "DEBIAN_FRONTEND=noninteractive apt install make"),
                     Which("make", WhichFinds(host1, "make"))>>
              /\ IF WhichFinds(host1, "make")
                 THEN /\ locals' = Found("make")
                      /\ epc' = "g++"
                      /\ UNCHANGED result
                 ELSE /\ UNCHANGED locals
                      /\ ReturnStatus(-1, locals.envs)
  /\ Frame

\* g++-7: the toolchain ppa is added when the release is unknown or its major
\* version is at most 18; version_major raises on a release that is no number.
CheckGplus ==
  /\ epc = "g++"
  /\ IF WhichFinds(host, "g++-7")
     THEN /\ trace' = Append(trace, Which("g++-7", TRUE))
          /\ locals' = Found("g++-7")
          /\ epc' = "wget"
          /\ UNCHANGED <<host, result>>
     ELSE LET sudo == locals.sudo
              begun == trace \o
                <<Which("g++-7", FALSE),
                  System("g++-7", sudo,
                         "DEBIAN_FRONTEND=noninteractive apt install software-properties-common -y"),
                  System("g++-7", sudo, "apt update")>>
              major == version_major(locals.ubuntu)
          IN  IF locals.ubuntu # <<>> /\ ~major.ok
              THEN /\ trace' = begun
                   /\ result' = [kind |-> "ValueError", status |-> 0, envs |-> <<>>]
                   /\ epc' = "done"
                   /\ UNCHANGED <<host, locals>>
              ELSE \E works \in BOOLEAN :
                   LET host1 == AfterInstall(host, "g++-7", works)
                       ppa == IF locals.ubuntu = <<>> \/ major.val <= 18
                              THEN <<System("g++-7", sudo,
                                            "add-apt-repository ppa:ubuntu-toolchain-r/test -y")>>
                              ELSE <<>>
                       tried == begun \o ppa \o
                         <<System("g++-7", sudo, "apt install gcc-7 g++-7 -y"),
                           Which("g++-7", WhichFinds(host1, "g++-7"))>>
                   IN  /\ host' = host1
                       /\ IF WhichFinds(host1, "g++-7")
                          THEN /\ trace' = tried \o
                                    <<System("-", sudo,
                                             "update-alternatives --install /usr/bin/gcc gcc /usr/bin/gcc-7 200"),
                                      System("-", sudo,
                                             "update-alternatives --install /usr/bin/g++ g++ /usr/bin/g++-7 200")>>
                               /\ locals' = Found("g++-7")
                               /\ epc' = "wget"
                               /\ UNCHANGED result
                          ELSE /\ trace' = tried
                               /\ UNCHANGED locals
                               /\ ReturnStatus(-1, locals.envs)
  /\ Frame

\* wget, git, unzip: simple_check_install; a None result does not stop the run.
SimpleCheck(bin, at, next) ==
  /\ epc = at
  /\ \E works \in BOOLEAN :
       LET r == simple_check_install(bin, locals.sudo, host, works)
       IN  /\ trace' = trace \o r.trace
           /\ host' = r.host
           /\ locals' = IF r.found THEN Found(bin) ELSE locals
  /\ epc' = next
  /\ UNCHANGED result
  /\ Frame

CheckWget == SimpleCheck("wget", "wget", "mmcv")

\* torch and mmcv: mmcv is installed only when torch imports and mmcv does not.
CheckTorchMmcv ==
  /\ epc = "mmcv"
  /\ trace' = IF facts.torch /\ ~facts.mmcv
              THEN trace \o <<System("-", "", "python3 -m pip install -U openmim"),
                              System("-", "", "mim install mmcv-full==1.5.1")>>
              ELSE trace
  /\ epc' = "git"
  /\ UNCHANGED <<host, locals, result>>
  /\ Frame

CheckGit == SimpleCheck("git", "git", "unzip")

CheckUnzip == SimpleCheck("unzip", "unzip", "opencv")

\* opencv: ppa, apt update and libopencv-dev when opencv_version is missing.
CheckOpencv ==
  /\ epc = "opencv"
  /\ IF WhichFinds(host, "opencv_version")
     THEN /\ trace' = Append(trace, Which("opencv_version", TRUE))
          /\ locals' = Found("opencv_version")
          /\ epc' = "print"
          /\ UNCHANGED <<host, result>>
     ELSE \E works \in BOOLEAN :
          LET host1 == AfterInstall(host, "opencv_version", works)
              sudo == locals.sudo
          IN  /\ host' = host1
              /\ trace' = trace \o
                   <<Which("opencv_version", FALSE),
                     System("opencv_version", sudo,
                            "add-apt-repository ppa:ignaciovizzo/opencv3-nonfree -y"),
                     System("opencv_version", sudo, "apt update"),
                     System("opencv_version", sudo,
                            "DEBIAN_FRONTEND=noninteractive apt install libopencv-dev -y"),
                     Which("opencv_version", WhichFinds(host1, "opencv_version"))>>
              /\ IF WhichFinds(host1, "opencv_version")
                 THEN /\ locals' = Found("opencv_version")
                      /\ epc' = "print"
                      /\ UNCHANGED result
                 ELSE /\ UNCHANGED locals
                      /\ ReturnStatus(-1, locals.envs)
  /\ Frame

\* The report is printed and (0, envs) returned.
PrintAll ==
  /\ epc = "print"
  /\ ReturnStatus(0, locals.envs)
  /\ UNCHANGED <<host, locals, trace>>
  /\ Frame

NextEnv ==
  \/ Prologue
  \/ CheckCmake
  \/ CheckMake
  \/ CheckGplus
  \/ CheckWget
  \/ CheckTorchMmcv
  \/ CheckGit
  \/ CheckUnzip
  \/ CheckOpencv
  \/ PrintAll

SpecEnv == InitEnv /\ [][NextEnv]_vars

\* ------------------------------------------------------------------------
\* Error kinds of the specification, as the exceptions the code raises
\* ------------------------------------------------------------------------
UnsupportedBackend == "NotImplementedError"
MissingArtifact == "IndexError"
MissingConfiguration == "AssertionError"

\* How many artifact paths a branch indexes unconditionally.
RequiredFiles(backend) == IF backend = "NCNN" THEN 2 ELSE 1

Returned == pc = "returned"
RaisedBeforeCtor(exc) ==
  ret.status = "raise" /\ ret.exc = exc /\ ~ret.ctor_called /\ ret.adapter = NoAdapter
ReturnedAdapter == ret.status = "return" /\ ret.adapter # NoAdapter

\* ------------------------------------------------------------------------
\* Claims about the factory (checked under SpecBuild)
\* ------------------------------------------------------------------------

\* C2: a build with an engine kind outside the dispatch table always fails
\* with UnsupportedBackend, whatever the artifact list (empty included),
\* device, tensor names and deployment metadata; it returns no adapter and
\* raises nothing else.
C2_UnknownKindUnsupported ==
  (Returned /\ call.backend \notin TableBackends)
    => RaisedBeforeCtor(UnsupportedBackend)

C2_Witness ==
  /\ Returned
  /\ call.backend = "PYTORCH"
  /\ call.backend_files = <<>>
  /\ call.deploy_cfg = NoneCfg
  /\ ret.exc = UnsupportedBackend

\* C3 as stated: for every kind of the table, one artifact path fewer than
\* the kind requires fails with MissingArtifact and with nothing else, and
\* no adapter is constructed.
C3_OneFewerAlwaysMissingArtifact ==
  (Returned /\ call.backend \in TableBackends
            /\ Len(call.backend_files) = RequiredFiles(call.backend) - 1)
    => RaisedBeforeCtor(MissingArtifact)

\* The SDK branch reaches backend_files[0] only after its assert and its
\* task lookup have passed.
SDKConfigured(c) == c.deploy_cfg.present /\ c.deploy_cfg.task = "mapped"

\* C3 amended: one path fewer than required fails with MissingArtifact for
\* every kind of the table other than SDK, and for SDK when the deployment
\* metadata is present and its task type is in the task map; for SDK without
\* metadata the failure is MissingConfiguration instead.  In every one of
\* these cases no adapter is constructed.
C3_OneFewerMissingArtifact ==
  (Returned /\ call.backend \in TableBackends
            /\ Len(call.backend_files) = RequiredFiles(call.backend) - 1)
    => /\ (call.backend # "SDK" \/ SDKConfigured(call))
            => RaisedBeforeCtor(MissingArtifact)
       /\ (call.backend = "SDK" /\ ~call.deploy_cfg.present)
            => RaisedBeforeCtor(MissingConfiguration)

C3_Witness ==
  /\ Returned
  /\ call.backend = "NCNN"
  /\ Len(call.backend_files) = 1
  /\ ret.exc = MissingArtifact

\* C8 as stated: for every kind of the table, exactly the required number of
\* paths gives an adapter and never MissingArtifact, whatever the tensor
\* names, deployment metadata and engine options (the engine itself loading
\* the model).
C8_RequiredCountAlwaysBuilds ==
  (Returned /\ call.backend \in TableBackends /\ call.loads
            /\ Len(call.backend_files) = RequiredFiles(call.backend))
    => (ReturnedAdapter /\ ret.exc # MissingArtifact)

\* C8 amended: with exactly the required number of paths no kind of the
\* table raises MissingArtifact; an adapter is returned (the engine itself
\* loading the model) for every kind other than SDK, and for SDK when the
\* deployment metadata is present and its task type is in the task map.
C8_RequiredCountBuilds ==
  (Returned /\ call.backend \in TableBackends
            /\ Len(call.backend_files) = RequiredFiles(call.backend))
    => /\ ret.exc # MissingArtifact
       /\ (call.loads /\ (call.backend # "SDK" \/ SDKConfigured(call)))
            => ReturnedAdapter

C8_Witness ==
  /\ Returned
  /\ call.backend = "SDK"
  /\ Len(call.backend_files) = 1
  /\ SDKConfigured(call)
  /\ call.loads
  /\ ReturnedAdapter

\* C9: the NCNN adapter is constructed with use_vulkan off when no deployment
\* metadata is passed and when the metadata lacks the flag, and with it on
\* only when the metadata sets the flag to true.
C9_VulkanOffByDefault ==
  (Returned /\ call.backend = "NCNN" /\ ret.status = "return")
    => /\ ~call.deploy_cfg.present => ~ret.adapter.use_vulkan
       /\ (call.deploy_cfg.present /\ call.deploy_cfg.use_vulkan = "absent")
            => ~ret.adapter.use_vulkan
       /\ ret.adapter.use_vulkan
            => (call.deploy_cfg.present /\ call.deploy_cfg.use_vulkan = "true")

C9_Witness ==
  /\ Returned
  /\ call.backend = "NCNN"
  /\ call.deploy_cfg.present
  /\ call.deploy_cfg.use_vulkan = "absent"
  /\ ret.status = "return"
  /\ ret.adapter.cls = "NCNNWrapper"
  /\ ~ret.adapter.use_vulkan

\* ------------------------------------------------------------------------
\* Claims about the facade (checked under SpecFacade)
\* ------------------------------------------------------------------------
Constructed == pc \in {"live", "failed"}

\* C1 as stated: with an adapter that exposes destroy, two destroy() calls on
\* the facade do not fail and run the adapter's destroy routine exactly once.
C1_SecondDestroyIsNoOp ==
  (pc = "live" /\ self.has_wrapper /\ engine.has_destroy /\ n_destroy = 2)
    => (ret.status = "return" /\ engine.destroy_calls = 1)

\* C4: constructing a facade for the SDK kind without deployment metadata
\* fails with MissingConfiguration before any wrapper constructor is entered,
\* and the facade holds no adapter.
C4_SDKWithoutConfigFails ==
  (Constructed /\ call.binds /\ call.backend = "SDK" /\ ~call.deploy_cfg.present)
    => /\ pc = "failed"
       /\ RaisedBeforeCtor(MissingConfiguration)
       /\ ~self.has_wrapper
       /\ self.wrapper = NoAdapter

C4_Witness ==
  /\ pc = "failed"
  /\ call.binds
  /\ call.backend = "SDK"
  /\ ~call.deploy_cfg.present
  /\ Len(call.backend_files) = 1
  /\ ret.exc = MissingConfiguration

\* C5: names come from the metadata alone.  Without a deploy config, or with
\* an absent or empty list, input_name is 'input' and output_names is
\* ['output']; a non-empty input list gives its first element only
\* (['x','y'] gives 'x'); a non-empty output list is kept as it is.
C5_NamesResolved ==
  Constructed =>
    LET cfg == call.deploy_cfg IN
    /\ (~cfg.present \/ ~cfg.input_names.some \/ cfg.input_names.val = <<>>)
         => self.input_name = "input"
    /\ (~cfg.present \/ ~cfg.output_names.some \/ cfg.output_names.val = <<>>)
         => self.output_names = <<"output">>
    /\ (cfg.present /\ cfg.input_names.some /\ cfg.input_names.val # <<>>)
         => self.input_name = Head(cfg.input_names.val)
    /\ (cfg.present /\ cfg.input_names = Some(<<"x", "y">>))
         => self.input_name = "x"
    /\ (cfg.present /\ cfg.output_names.some /\ cfg.output_names.val # <<>>)
         => self.output_names = cfg.output_names.val

C5_Witness ==
  /\ pc = "live"
  /\ call.deploy_cfg.present
  /\ call.deploy_cfg.input_names = Some(<<"x", "y">>)
  /\ call.deploy_cfg.output_names = Some(<<"y", "x">>)
  /\ self.input_name = "x"
  /\ self.output_names = <<"y", "x">>

\* C6: destroy() on a facade whose adapter exposes no destroy, or that holds
\* no adapter, does not raise and leaves every field of the facade unchanged.
C6_DestroyWithoutCapability ==
  [][(pc = "live" /\ n_destroy' = n_destroy + 1
        /\ (~self.has_wrapper \/ ~engine.has_destroy))
       => (self' = self /\ engine' = engine /\ ret'.status = "return")]_vars

C6_Witness ==
  /\ pc = "live"
  /\ last = "destroy"
  /\ self.has_wrapper
  /\ ~engine.has_destroy
  /\ ret.status = "return"

\* C7 as stated: over any sequence of calls the adapter is destroyed at most
\* once, and once destroy() has run the facade no longer holds it for use.
C7_DestroyedOnceAndReleased ==
  /\ engine.destroy_calls <= 1
  /\ (n_destroy > 0 /\ engine.has_destroy) => ~self.has_wrapper

\* ------------------------------------------------------------------------
\* Claim about ensure_base_env (checked under SpecEnv)
\* ------------------------------------------------------------------------
IsInstall(e) == e.op = "system" /\ e.tool \in Tools
InstallsIssued == {i \in 1..Len(trace) : IsInstall(trace[i])}

\* The lookup of entry i's binary that comes last before entry i.
PrecedingLookups(i) ==
  {j \in 1..(i - 1) : /\ trace[j].op = "which"
                      /\ trace[j].tool = trace[i].tool
                      /\ \A k \in (j + 1)..(i - 1) :
                           ~(trace[k].op = "which" /\ trace[k].tool = trace[i].tool)}

\* C10: check-then-install.  An install command for one of the seven
\* binaries is issued only when the preceding `which` of that binary found
\* nothing; on a host that has all seven the run issues none of them and
\* returns status 0; status -1 is returned only when a binary is still
\* missing after its install attempt.
C10_CheckThenInstall ==
  /\ \A i \in InstallsIssued :
       /\ PrecedingLookups(i) # {}
       /\ \A j \in PrecedingLookups(i) : ~trace[j].found
  /\ (epc = "done" /\ facts.host0 = Tools)
       => (result.kind = "return" /\ result.status = 0 /\ InstallsIssued = {})
  /\ (result.kind = "return" /\ result.status = -1)
       => \E t \in Tools :
            /\ t \notin host
            /\ \E i \in InstallsIssued : trace[i].tool = t
            /\ trace[Len(trace)] = Which(t, FALSE)

C10_Witness ==
  /\ epc = "done"
  /\ facts.host0 = Tools
  /\ result.kind = "return"
  /\ result.status = 0
  /\ Len(trace) = 9

====
